---------------------------- MODULE Spec2Model ----------------------------
(***************************************************************************)
(* dsync: copy one local file to a dCache/pnfs destination, computing an   *)
(* Adler-32 checksum on the fly, then wait for the remote size and compare *)
(* the local checksum with the one the remote store publishes.             *)
(*                                                                         *)
(* Encodings.  A Python str is a sequence of one-character strings.  A     *)
(* byte is a number 0..255.  A Python integer v in -2^31 .. 2^32-1 is the  *)
(* pair <<hi, lo>> with v = hi * 65536 + lo, lo in 0..65535 and hi in      *)
(* -32768..65535 (TLC's integers are narrower than an unsigned 32-bit      *)
(* word).  A non-negative rational is a pair <<num, den>>.                 *)
(***************************************************************************)
EXTENDS Integers, Sequences, FiniteSets, TLC

(***************************** bounds **************************************)
\* longest source stream, in bytes
MaxLen == 3

(************************* program constants *******************************)
IO_SIZE == 1024 * 1024
CSUM_PREFIX == <<"A", "D", "L", "E", "R", "3", "2", ":">>
CSUM_PREFIX_LEN == Len(CSUM_PREFIX)
SIZE_SUFFIX == <<"", "KB", "MB", "GB", "TB">>
\* 2^16: one half of a 32-bit word (2**32 is Half * Half)
Half == 256 * 256
\* the modulus of zlib's adler32, 65521, the largest prime below 2^16
BASE == Half - 15
\* base of the 1024-ary logarithm in to_size_string
Kilo == 1024
\* microseconds per second in to_seconds
Mega == 10^6

\* the values a byte of the source takes in the model
Bytes == {0, 255}
\* Python's None, distinct from every str (a str has one-character elements)
None == <<"None">>
Whitespace == {" ", "\n", "\t"}

Min(a, b) == IF a < b THEN a ELSE b

(************************** zlib.adler32 ***********************************)
\* the two running sums after folding the bytes of data into <<a, b>>
RECURSIVE AdlerSums(_, _, _)
AdlerSums(data, a, b) ==
    IF data = <<>> THEN <<a, b>>
    ELSE LET a1 == (a + Head(data)) % BASE
             b1 == (b + a1) % BASE
         IN  AdlerSums(Tail(data), a1, b1)

adler32_NoCarry(data, value) ==
    LET s == AdlerSums(data, value[2], 0)
    IN  <<IF s[2] >= Half \div 2 THEN s[2] - Half ELSE s[2], s[1]>>

\* adler32(data, value): value is taken as an unsigned 32-bit word, its low
\* half seeds a and its high half seeds b; Python 2 returns the word
\* (b << 16) | a as a signed 32-bit integer.
adler32(data, value) ==
    LET s == AdlerSums(data, value[2], value[1] % Half)
    IN  <<IF s[2] >= Half \div 2 THEN s[2] - Half ELSE s[2], s[1]>>

\* asum = 1
Seed == <<0, 1>>

\* a fold that starts every block from the seed again
Fold_Unseeded(data, asum) ==
    LET v == adler32(data, Seed)
    IN  IF v[1] < 0 THEN <<v[1] + Half, v[2]>> ELSE v

\* lines 167-169: asum = adler32(data, asum); if asum < 0: asum += 2**32
Fold(data, asum) ==
    LET v == adler32(data, asum)
    IN  IF v[1] < 0 THEN <<v[1] + Half, v[2]>> ELSE v

(***************** hex(asum)[2:10].zfill(8).lower() ************************)
HexChars == <<"0", "1", "2", "3", "4", "5", "6", "7",
              "8", "9", "a", "b", "c", "d", "e", "f">>

\* the hex digits of n >= 0 without leading zeros ("" for 0)
RECURSIVE HexDigits(_)
HexDigits(n) ==
    IF n = 0 THEN <<>>
    ELSE Append(HexDigits(n \div 16), HexChars[(n % 16) + 1])

\* s.zfill(w)
RECURSIVE zfill(_, _)
zfill(s, w) == IF Len(s) >= w THEN s ELSE zfill(<<"0">> \o s, w)

\* hex(v) for v >= 0 (an int, so no "L" suffix): "0x" and the digits
hex(v) ==
    LET d == IF v[1] = 0
             THEN (IF v[2] = 0 THEN <<"0">> ELSE HexDigits(v[2]))
             ELSE HexDigits(v[1]) \o zfill(HexDigits(v[2]), 4)
    IN  <<"0", "x">> \o d

LowerOf(c) ==
    CASE c = "A" -> "a" [] c = "B" -> "b" [] c = "C" -> "c"
      [] c = "D" -> "d" [] c = "E" -> "e" [] c = "F" -> "f"
      [] c = "L" -> "l" [] c = "R" -> "r" [] c = "M" -> "m"
      [] OTHER -> c
UpperOf(c) ==
    CASE c = "a" -> "A" [] c = "b" -> "B" [] c = "c" -> "C"
      [] c = "d" -> "D" [] c = "e" -> "E" [] c = "f" -> "F"
      [] OTHER -> c
lower(s) == [i \in 1..Len(s) |-> LowerOf(s[i])]
upper(s) == [i \in 1..Len(s) |-> UpperOf(s[i])]

\* a rendering without the zero padding
Render_NoZfill(asum) == lower(SubSeq(hex(asum), 3, Min(10, Len(hex(asum)))))

\* line 165: the rendered checksum
Render(asum) == lower(zfill(SubSeq(hex(asum), 3, Min(10, Len(hex(asum)))), 8))

(************************** str helpers ************************************)
\* string.find(l, p): the lowest 0-based index where p occurs in l, or -1
Find(l, p) ==
    LET hits == {i \in 0..(Len(l) - Len(p)) : SubSeq(l, i + 1, i + Len(p)) = p}
    IN  IF hits = {} THEN -1 ELSE CHOOSE i \in hits : \A j \in hits : i <= j

\* s.strip()
RECURSIVE lstrip(_)
lstrip(s) == IF s # <<>> /\ Head(s) \in Whitespace THEN lstrip(Tail(s)) ELSE s
RECURSIVE rstrip(_)
rstrip(s) ==
    IF s # <<>> /\ s[Len(s)] \in Whitespace
    THEN rstrip(SubSeq(s, 1, Len(s) - 1)) ELSE s
strip(s) == rstrip(lstrip(s))


(************************** to_size_string *********************************)
RECURSIVE GCD(_, _)
GCD(a, b) == IF b = 0 THEN a ELSE GCD(b, a % b)
\* the rational a/b in lowest terms (b > 0)
Ratio(a, b) == IF a = 0 THEN <<0, 1>> ELSE <<a \div GCD(a, b), b \div GCD(a, b)>>

RECURSIVE Pow(_, _)
Pow(x, k) == IF k = 0 THEN 1 ELSE x * Pow(x, k - 1)

\* floor(log(a/b, 1024)) for a >= b > 0 and for 0 < a < b
RECURSIVE LogUp(_, _)
LogUp(a, b) == IF a \div Kilo >= b THEN 1 + LogUp(a \div Kilo, b) ELSE 0
RECURSIVE LogDown(_, _)
LogDown(a, b) == IF b <= a * Kilo THEN -1 ELSE LogDown(a * Kilo, b) - 1
FloorLog(n) == IF n[1] >= n[2] THEN LogUp(n[1], n[2]) ELSE LogDown(n[1], n[2])

\* to_size_string(n) for the rational n: the exception it raises, or "none".
\* log(n, 1024) is a math domain error for n <= 0; SIZE_SUFFIX[f] is an
\* IndexError outside -5..4 (a negative f indexes the list from its end).
SizeStringError(n) ==
    IF n[1] <= 0 THEN "ValueError"
    ELSE IF FloorLog(n) >= Len(SIZE_SUFFIX) \/ FloorLog(n) < -Len(SIZE_SUFFIX)
         THEN "IndexError"
         ELSE "none"

\* to_size_string(n) when it raises nothing: "%d%s" as <<number, suffix>>
to_size_string(n) ==
    LET f == FloorLog(n)
        q == IF f >= 0 THEN n[1] \div (n[2] * Pow(Kilo, f))
                       ELSE (n[1] * Pow(Kilo, -f)) \div n[2]
        s == IF f >= 0 THEN SIZE_SUFFIX[f + 1]
                       ELSE SIZE_SUFFIX[Len(SIZE_SUFFIX) + f + 1]
    IN  <<q, s>>

(************************ the remote store *********************************)
\* The lines a read of the checksum pseudo-file may give for a destination
\* whose bytes are d.  The store computes its Adler-32 over the whole file.
RemoteSum(d) == Render(Fold(d, Seed))
Line(s) == s \o <<"\n">>
SumFiles(d) ==
    { <<Line(CSUM_PREFIX \o RemoteSum(d))>>,
      <<Line(<<"M", "D", "5", ":", "0">>),
        Line(<<" ">> \o CSUM_PREFIX \o <<" ">> \o RemoteSum(d) \o <<" ">>)>>,
      <<Line(CSUM_PREFIX \o upper(RemoteSum(d)))>>,
      <<Line(CSUM_PREFIX \o <<"0", "0", "0", "0", "0", "0", "0", "0">>)>>,
      <<Line(CSUM_PREFIX)>>,
      <<Line(<<"M", "D", "5", ":", "0">>)>>,
      << >> }
\* what a read of the id pseudo-file may give
IdFiles == { <<"0", "0", "A", "1", "\n">>, <<>> }
\* what datetime.now() - start may be, in microseconds
ElapsedMicros == {0, Mega \div 4, Mega, 8 * Mega}

\* lines 129-132: the loop over f.readlines()
RECURSIVE ScanLines(_)
ScanLines(lines) ==
    IF lines = <<>> THEN None
    ELSE LET l == Head(lines)
             i == Find(l, CSUM_PREFIX)
         IN  IF i # -1 THEN strip(SubSeq(l, i + CSUM_PREFIX_LEN + 1, Len(l)))
             ELSE ScanLines(Tail(lines))

(***************************** state ***************************************)
VARIABLES
    pc,          \* the position of main()
    exitStatus,  \* the process's exit status, NoExit while it runs
    exc,         \* the uncaught exception that ended the run, or "none"
    srcData,     \* the bytes the source descriptor yields
    srcPos,      \* how many of them os.read has returned
    inFd,        \* "none", "open" or "closed"
    outFd,       \* "none", "open" or "closed"
    lsize,       \* os.stat(src).st_size as captured at line 60
    destPre,     \* the destination path existed when main() started
    destExists,  \* the destination path exists
    destData,    \* its bytes
    rsize,       \* the st_size the store reports for it
    asum,        \* copy(): the accumulator
    data,        \* copy(): the block just read
    lsum,        \* main(): the local checksum
    rsum,        \* main(): the remote checksum
    sumFile,     \* the lines read from the checksum pseudo-file
    pnfsid,      \* main(): the remote identifier
    elapsed,     \* end - start, in microseconds
    outRecords,  \* the records written by OUT_LOG.info at line 104
    notices,     \* the "not ready yet" notices of waitForSize (capped)
    hist         \* what has happened in the run: calls made and failures met

vars == <<pc, exitStatus, exc, srcData, srcPos, inFd, outFd, lsize, destPre,
          destExists, destData, rsize, asum, data, lsum, rsum, sumFile,
          pnfsid, elapsed, outRecords, notices, hist>>

NoExit == -1
\* the notices counted before the counter saturates
MaxNotices == 2

RECURSIVE SeqsUpTo(_, _)
SeqsUpTo(S, n) ==
    IF n = 0 THEN {<<>>}
    ELSE LET T == SeqsUpTo(S, n - 1)
         IN  T \cup {Append(t, x) : t \in {u \in T : Len(u) = n - 1}, x \in S}

Hist0 ==
    [ failed     |-> {},     \* the operations that failed
      reads      |-> 0,      \* os.read calls on the source
      writes     |-> 0,      \* os.write calls on the destination
      shortWrite |-> FALSE,  \* an os.write returned less than the block
      created    |-> FALSE,  \* the exclusive create of dest succeeded
      removed    |-> FALSE,  \* os.remove(dest) was executed
      copyCalled |-> FALSE,  \* copy() was entered
      sizeSeen   |-> FALSE,  \* waitForSize saw st_size == size
      sidecars   |-> {},     \* the pseudo-files opened
      compared   |-> FALSE ] \* lsum != rsum was evaluated

Init ==
    /\ pc = "parse_args"
    /\ exitStatus = NoExit
    /\ exc = "none"
    /\ srcData \in SeqsUpTo(Bytes, MaxLen)
    /\ srcPos = 0
    /\ inFd = "none"
    /\ outFd = "none"
    /\ lsize = 0
    /\ destPre \in BOOLEAN
    /\ destExists = destPre
    /\ destData \in (IF destPre THEN {<<>>, <<255>>} ELSE {<<>>})
    /\ rsize = Len(destData)
    /\ asum = Seed
    /\ data = <<>>
    /\ lsum = None
    /\ rsum = None
    /\ sumFile = <<>>
    /\ pnfsid = None
    /\ elapsed = 0
    /\ outRecords = <<>>
    /\ notices = 0
    /\ hist = Hist0

Failed(op) == [hist EXCEPT !.failed = @ \cup {op}]

(*********************** leaving the process *******************************)
\* sys.exit(status)
Exit(status) == pc' = "exit" /\ exitStatus' = status /\ exc' = "none"
\* an exception nothing catches: traceback, then exit status 1
Raise(e) == pc' = "exit" /\ exitStatus' = 1 /\ exc' = e
Running == exc' = exc /\ exitStatus' = exitStatus

srcVars  == <<srcData, srcPos, inFd, lsize>>
destVars == <<destPre, destExists, destData, rsize, outFd>>
copyVars == <<asum, data, lsum>>
endVars  == <<rsum, sumFile, pnfsid, elapsed, outRecords, notices>>

(************************* main(), lines 30-69 *****************************)
\* lines 32-53
ParseArgs ==
    /\ pc = "parse_args"
    /\ \E badOpt \in BOOLEAN, nargs \in 0..3,
          outLog \in {"absent", "given", "unopenable"} :
         IF badOpt \/ (outLog # "unopenable" /\ nargs # 2)
         THEN Exit(1) /\ hist' = Failed("usage")
         ELSE IF outLog = "unopenable"
         THEN Raise("IOError") /\ hist' = Failed("out_log")
         ELSE pc' = "open_src" /\ Running /\ hist' = hist
    /\ UNCHANGED <<srcVars, destVars, copyVars, endVars>>

\* line 59, and lines 61-63 when it fails
OpenSource ==
    /\ pc = "open_src"
    /\ \E err \in BOOLEAN :
         IF ~err
         THEN inFd' = "open" /\ pc' = "stat_src" /\ Running /\ hist' = hist
         ELSE inFd' = inFd /\ Exit(2) /\ hist' = Failed("open_src")
    /\ UNCHANGED <<srcData, srcPos, lsize, destVars, copyVars, endVars>>

\* line 60, and lines 61-63 when it fails.  The size is what the path has
\* at this moment; the descriptor may later yield more or fewer bytes.
StatSource ==
    /\ pc = "stat_src"
    /\ \E err \in BOOLEAN, n \in 0..MaxLen :
         IF ~err
         THEN lsize' = n /\ pc' = "create_dest" /\ Running /\ hist' = hist
         ELSE lsize' = lsize /\ Exit(2) /\ hist' = Failed("stat_src")
    /\ UNCHANGED <<srcData, srcPos, inFd, destVars, copyVars, endVars>>

\* a create without O_EXCL: an existing destination is opened and truncated
CreateDest_NoExcl ==
    /\ pc = "create_dest"
    /\ \E err \in BOOLEAN :
         IF ~err
         THEN /\ destExists' = TRUE
              /\ destData' = <<>>
              /\ rsize' = 0
              /\ outFd' = "open"
              /\ asum' = Seed
              /\ pc' = "copy_read"
              /\ Running
              /\ hist' = [hist EXCEPT !.created = TRUE, !.copyCalled = TRUE]
         ELSE /\ UNCHANGED <<destExists, destData, rsize, outFd, asum>>
              /\ Exit(3)
              /\ hist' = Failed("create_dest")
    /\ UNCHANGED <<srcVars, destPre, data, lsum, endVars>>

\* line 66, and lines 67-69 when it fails; O_EXCL fails on an existing path
CreateDest ==
    /\ pc = "create_dest"
    /\ \E err \in BOOLEAN :
         IF ~err /\ ~destExists
         THEN /\ destExists' = TRUE
              /\ destData' = <<>>
              /\ rsize' = 0
              /\ outFd' = "open"
              /\ asum' = Seed
              /\ pc' = "copy_read"
              /\ Running
              /\ hist' = [hist EXCEPT !.created = TRUE, !.copyCalled = TRUE]
         ELSE /\ UNCHANGED <<destExists, destData, rsize, outFd, asum>>
              /\ Exit(3)
              /\ hist' = Failed("create_dest")
    /\ UNCHANGED <<srcVars, destPre, data, lsum, endVars>>

(************************* copy(), lines 157-172 ***************************)
\* the length of what os.read(src, IO_SIZE) may return with left bytes to
\* come: nothing at the end of the stream, else a non-empty block of at
\* most IO_SIZE bytes (a short one, or all that is left)
BlockSizes(left) ==
    IF left = 0 THEN {0}
    ELSE {n \in (1..MaxLen) \cup {left} : 1 <= n /\ n <= Min(IO_SIZE, left)}

\* line 163 and what follows it up to the next system call
CopyRead ==
    /\ pc = "copy_read"
    /\ \E err \in BOOLEAN, n \in BlockSizes(Len(srcData) - srcPos) :
         LET h == [hist EXCEPT !.reads = @ + 1]
         IN  IF err
             THEN /\ pc' = "copy_except"
                  /\ hist' = [h EXCEPT !.failed = @ \cup {"read"}]
                  /\ UNCHANGED <<srcPos, asum, data, lsum>>
             ELSE /\ data' = SubSeq(srcData, srcPos + 1, srcPos + n)
                  /\ srcPos' = srcPos + n
                  /\ hist' = h
                  /\ IF Len(data') = 0
                     THEN /\ lsum' = Render(asum)
                          /\ asum' = asum
                          /\ pc' = "close_src"
                     ELSE /\ asum' = Fold(data', asum)
                          /\ lsum' = lsum
                          /\ pc' = "copy_write"
    /\ Running
    /\ UNCHANGED <<srcData, inFd, lsize, destVars, endVars>>

\* a write loop that does not compare n with len(data)
CopyWrite_NoShortCheck ==
    /\ pc = "copy_write"
    /\ \E err \in BOOLEAN, n \in 0..Len(data) :
         LET h == [hist EXCEPT !.writes = @ + 1]
         IN  IF err
             THEN /\ pc' = "copy_except"
                  /\ hist' = [h EXCEPT !.failed = @ \cup {"write"}]
                  /\ destData' = destData
             ELSE /\ destData' = destData \o SubSeq(data, 1, n)
                  /\ pc' = "copy_read"
                  /\ hist' = [h EXCEPT !.shortWrite = @ \/ n # Len(data)]
    /\ Running
    /\ UNCHANGED <<srcVars, destPre, destExists, rsize, outFd, copyVars, endVars>>

\* a write loop that writes the rest of the block again after a short write
CopyWrite_Retry ==
    /\ pc = "copy_write"
    /\ \E err \in BOOLEAN, n \in 0..Len(data) :
         LET h == [hist EXCEPT !.writes = @ + 1]
         IN  IF err
             THEN /\ pc' = "copy_except"
                  /\ hist' = [h EXCEPT !.failed = @ \cup {"write"}]
                  /\ UNCHANGED <<destData, data>>
             ELSE /\ destData' = destData \o SubSeq(data, 1, n)
                  /\ data' = SubSeq(data, n + 1, Len(data))
                  /\ IF n # Len(data)
                     THEN /\ pc' = "copy_write"
                          /\ hist' = [h EXCEPT !.shortWrite = TRUE]
                     ELSE /\ pc' = "copy_read"
                          /\ hist' = h
    /\ Running
    /\ UNCHANGED <<srcVars, destPre, destExists, rsize, outFd, asum, lsum, endVars>>

\* lines 170-172
CopyWrite ==
    /\ pc = "copy_write"
    /\ \E err \in BOOLEAN, n \in 0..Len(data) :
         LET h == [hist EXCEPT !.writes = @ + 1]
         IN  IF err
             THEN /\ pc' = "copy_except"
                  /\ hist' = [h EXCEPT !.failed = @ \cup {"write"}]
                  /\ destData' = destData
             ELSE /\ destData' = destData \o SubSeq(data, 1, n)
                  /\ IF n # Len(data)
                     THEN /\ pc' = "copy_except"
                          /\ hist' = [h EXCEPT !.shortWrite = TRUE,
                                               !.failed = @ \cup {"short_write"}]
                     ELSE /\ pc' = "copy_read"
                          /\ hist' = h
    /\ Running
    /\ UNCHANGED <<srcVars, destPre, destExists, rsize, outFd, copyVars, endVars>>

(************************* main(), lines 71-106 ****************************)
\* os.remove(dest); sys.exit(status).  Removing the file this run created
\* is taken to succeed.
RemoveAndExit(status) ==
    /\ destExists' = FALSE
    /\ destData' = <<>>
    /\ rsize' = 0
    /\ hist' = [hist EXCEPT !.removed = TRUE]
    /\ Exit(status)
    /\ UNCHANGED <<srcVars, destPre, outFd, copyVars, endVars>>

\* lines 73-76
CopyExcept == pc = "copy_except" /\ RemoveAndExit(4)

\* a source close whose failure is handled like the destination's
CloseSource_Fatal ==
    /\ pc = "close_src"
    /\ \E err \in BOOLEAN, left \in {"open", "closed"} :
         IF ~err
         THEN inFd' = "closed" /\ hist' = hist /\ pc' = "close_dest"
         ELSE inFd' = left /\ hist' = Failed("close_src") /\ pc' = "close_except"
    /\ Running
    /\ UNCHANGED <<srcData, srcPos, lsize, destVars, copyVars, endVars>>

\* lines 78-81: the failure is logged and ignored
CloseSource ==
    /\ pc = "close_src"
    /\ \E err \in BOOLEAN, left \in {"open", "closed"} :
         IF ~err
         THEN inFd' = "closed" /\ hist' = hist
         ELSE inFd' = left /\ hist' = Failed("close_src")
    /\ pc' = "close_dest"
    /\ Running
    /\ UNCHANGED <<srcData, srcPos, lsize, destVars, copyVars, endVars>>

\* a destination close whose failure is logged and ignored
CloseDest_Ignore ==
    /\ pc = "close_dest"
    /\ \E err \in BOOLEAN, left \in {"open", "closed"} :
         IF ~err
         THEN outFd' = "closed" /\ hist' = hist
         ELSE outFd' = left /\ hist' = Failed("close_dest")
    /\ pc' = "wait_stat"
    /\ Running
    /\ UNCHANGED <<srcVars, destPre, destExists, destData, rsize, copyVars, endVars>>

\* line 84
CloseDest ==
    /\ pc = "close_dest"
    /\ \E err \in BOOLEAN, left \in {"open", "closed"} :
         IF ~err
         THEN outFd' = "closed" /\ pc' = "wait_stat" /\ hist' = hist
         ELSE outFd' = left /\ pc' = "close_except" /\ hist' = Failed("close_dest")
    /\ Running
    /\ UNCHANGED <<srcVars, destPre, destExists, destData, rsize, copyVars, endVars>>

\* lines 85-88
CloseExcept == pc = "close_except" /\ RemoveAndExit(5)

\* a size check that lets any size through
WaitStat_AnySize ==
    /\ pc = "wait_stat"
    /\ \E err \in BOOLEAN :
         IF err
         THEN Raise("OSError") /\ hist' = Failed("wait_stat")
         ELSE pc' = "read_sum" /\ Running
              /\ hist' = [hist EXCEPT !.sizeSeen = (rsize = lsize)]
    /\ UNCHANGED <<srcVars, destVars, copyVars, endVars>>

\* a size wait that gives up after MaxNotices notices and returns
WaitStat_GiveUp ==
    /\ pc = "wait_stat"
    /\ \E err \in BOOLEAN :
         IF err
         THEN Raise("OSError") /\ hist' = Failed("wait_stat")
         ELSE IF rsize = lsize
         THEN pc' = "read_sum" /\ Running /\ hist' = [hist EXCEPT !.sizeSeen = TRUE]
         ELSE IF notices >= MaxNotices
         THEN pc' = "read_sum" /\ Running /\ hist' = hist
         ELSE pc' = "wait_sleep" /\ Running /\ hist' = hist
    /\ UNCHANGED <<srcVars, destVars, copyVars, endVars>>

\* waitForSize, lines 151-153; an OSError of os.stat is caught nowhere
WaitStat ==
    /\ pc = "wait_stat"
    /\ \E err \in BOOLEAN :
         IF err
         THEN Raise("OSError") /\ hist' = Failed("wait_stat")
         ELSE IF rsize = lsize
         THEN pc' = "read_sum" /\ Running /\ hist' = [hist EXCEPT !.sizeSeen = TRUE]
         ELSE pc' = "wait_sleep" /\ Running /\ hist' = hist
    /\ UNCHANGED <<srcVars, destVars, copyVars, endVars>>

\* waitForSize, lines 154-155
WaitSleep ==
    /\ pc = "wait_sleep"
    /\ notices' = Min(notices + 1, MaxNotices)
    /\ pc' = "wait_stat"
    /\ Running
    /\ UNCHANGED <<srcVars, destVars, copyVars, rsum, sumFile, pnfsid, elapsed,
                   outRecords, hist>>

\* the store makes more of the written bytes visible in st_size
RemoteFlush ==
    /\ pc # "exit"
    /\ hist.created /\ destExists
    /\ rsize < Len(destData)
    /\ \E n \in (rsize + 1)..Len(destData) : rsize' = n
    /\ UNCHANGED <<pc, exitStatus, exc, srcVars, destPre, destExists, destData,
                   outFd, copyVars, endVars, hist>>

SumsDiffer_AbsentPasses(l, r) == r # None /\ l # r

\* line 93: lsum != rsum
SumsDiffer(l, r) == l # r

\* a verification that opens the id pseudo-file before it compares
GetSum_IdFirst ==
    /\ pc = "read_sum"
    /\ \E err \in BOOLEAN, f \in SumFiles(destData), us \in ElapsedMicros :
         LET h == [hist EXCEPT !.sidecars = @ \cup {"checksum", "id"}]
         IN  IF err
             THEN /\ Raise("IOError")
                  /\ hist' = [h EXCEPT !.failed = @ \cup {"sum_read"}]
                  /\ UNCHANGED <<rsum, sumFile, elapsed>>
             ELSE /\ sumFile' = f
                  /\ rsum' = ScanLines(f)
                  /\ Running
                  /\ IF SumsDiffer(lsum, rsum')
                     THEN /\ pc' = "mismatch"
                          /\ hist' = [h EXCEPT !.compared = TRUE,
                                               !.failed = @ \cup {"mismatch"}]
                          /\ elapsed' = elapsed
                     ELSE /\ pc' = "read_id"
                          /\ hist' = [h EXCEPT !.compared = TRUE]
                          /\ elapsed' = us
    /\ UNCHANGED <<srcVars, destVars, copyVars, pnfsid, outRecords, notices>>

\* line 92 (getSumFromPnfs, lines 124-132), lines 93-94 and 98-99
GetSum ==
    /\ pc = "read_sum"
    /\ \E err \in BOOLEAN, f \in SumFiles(destData), us \in ElapsedMicros :
         LET h == [hist EXCEPT !.sidecars = @ \cup {"checksum"}]
         IN  IF err
             THEN /\ Raise("IOError")
                  /\ hist' = [h EXCEPT !.failed = @ \cup {"sum_read"}]
                  /\ UNCHANGED <<rsum, sumFile, elapsed>>
             ELSE /\ sumFile' = f
                  /\ rsum' = ScanLines(f)
                  /\ Running
                  /\ IF SumsDiffer(lsum, rsum')
                     THEN /\ pc' = "mismatch"
                          /\ hist' = [h EXCEPT !.compared = TRUE,
                                               !.failed = @ \cup {"mismatch"}]
                          /\ elapsed' = elapsed
                     ELSE /\ pc' = "read_id"
                          /\ hist' = [h EXCEPT !.compared = TRUE]
                          /\ elapsed' = us
    /\ UNCHANGED <<srcVars, destVars, copyVars, pnfsid, outRecords, notices>>

\* a mismatch exit that leaves the destination in place
Mismatch_NoRemove ==
    /\ pc = "mismatch"
    /\ Exit(6)
    /\ UNCHANGED <<srcVars, destVars, copyVars, endVars, hist>>

\* lines 95-96
Mismatch == pc = "mismatch" /\ RemoveAndExit(6)

\* line 102: speed = lsize / to_seconds(elapsed), for elapsed > 0
Speed == Ratio(lsize * Mega, elapsed)

\* the exception lines 102-105 raise, or "none"
FormatError ==
    IF elapsed = 0 THEN "ZeroDivisionError"
    ELSE IF SizeStringError(<<lsize, 1>>) # "none"
    THEN SizeStringError(<<lsize, 1>>)
    ELSE SizeStringError(Speed)

\* line 101 (getPnfsId, lines 138-144) and lines 102-106
GetId ==
    /\ pc = "read_id"
    /\ \E err \in BOOLEAN, f \in IdFiles :
         LET h == [hist EXCEPT !.sidecars = @ \cup {"id"}]
         IN  IF err
             THEN /\ Raise("IOError")
                  /\ hist' = [h EXCEPT !.failed = @ \cup {"id_read"}]
                  /\ UNCHANGED <<pnfsid, outRecords>>
             ELSE /\ pnfsid' = strip(f)
                  /\ IF FormatError # "none"
                     THEN /\ Raise(FormatError)
                          /\ hist' = [h EXCEPT !.failed = @ \cup {"format"}]
                          /\ outRecords' = outRecords
                     ELSE /\ outRecords' = Append(outRecords,
                                [ pnfsid |-> pnfsid', lsum |-> lsum,
                                  lsize |-> lsize,
                                  size |-> to_size_string(<<lsize, 1>>),
                                  elapsed |-> elapsed,
                                  speed |-> to_size_string(Speed) ])
                          /\ Exit(0)
                          /\ hist' = h
    /\ UNCHANGED <<srcVars, destVars, copyVars, rsum, sumFile, elapsed, notices>>

Next ==
    \/ ParseArgs
    \/ OpenSource
    \/ StatSource
    \/ CreateDest
    \/ CopyRead
    \/ CopyWrite
    \/ CopyExcept
    \/ CloseSource
    \/ CloseDest
    \/ CloseExcept
    \/ WaitStat
    \/ WaitSleep
    \/ RemoteFlush
    \/ GetSum
    \/ Mismatch
    \/ GetId

Spec == Init /\ [][Next]_vars

(********************* copy() on longer streams ****************************)
\* The most 0xFF bytes in a stream.  23 of them take the high sum past the
\* modulus, 16 make the word negative as a signed 32-bit integer.
LongRun == 24

RECURSIVE Run(_, _)
Run(x, n) == IF n = 0 THEN <<>> ELSE <<x>> \o Run(x, n - 1)
LongStreams == {Run(255, n) \o t : n \in 0..LongRun, t \in SeqsUpTo(Bytes, 1)}

\* the state in which main() calls copy() at line 72
CopyInit ==
    /\ pc = "copy_read"
    /\ exitStatus = NoExit
    /\ exc = "none"
    /\ srcData \in LongStreams
    /\ srcPos = 0
    /\ inFd = "open"
    /\ outFd = "open"
    /\ lsize = Len(srcData)
    /\ destPre = FALSE
    /\ destExists = TRUE
    /\ destData = <<>>
    /\ rsize = 0
    /\ asum = Seed
    /\ data = <<>>
    /\ lsum = None
    /\ rsum = None
    /\ sumFile = <<>>
    /\ pnfsid = None
    /\ elapsed = 0
    /\ outRecords = <<>>
    /\ notices = 0
    /\ hist = [Hist0 EXCEPT !.created = TRUE, !.copyCalled = TRUE]

CopyNext ==
    \/ CopyRead
    \/ CopyWrite
    \/ CopyExcept

CopySpec == CopyInit /\ [][CopyNext]_vars

(**************************** waitForSize alone ****************************)
\* the state in which main() calls waitForSize at line 90: the copy and both
\* closes succeeded, the store reports some or all of the bytes written
WaitInit ==
    /\ pc = "wait_stat"
    /\ exitStatus = NoExit
    /\ exc = "none"
    /\ srcData \in SeqsUpTo(Bytes, MaxLen)
    /\ srcPos = Len(srcData)
    /\ inFd = "closed"
    /\ outFd = "closed"
    /\ lsize \in 0..MaxLen
    /\ destPre = FALSE
    /\ destExists = TRUE
    /\ destData = srcData
    /\ rsize \in 0..Len(destData)
    /\ asum = Fold(srcData, Seed)
    /\ data = <<>>
    /\ lsum = Render(asum)
    /\ rsum = None
    /\ sumFile = <<>>
    /\ pnfsid = None
    /\ elapsed = 0
    /\ outRecords = <<>>
    /\ notices = 0
    /\ hist = [Hist0 EXCEPT !.created = TRUE, !.copyCalled = TRUE,
                            !.reads = Len(srcData) + 1,
                            !.writes = Len(srcData)]

WaitNext ==
    \/ WaitStat
    \/ WaitSleep
    \/ RemoteFlush

\* The program is one sequential flow of blocking calls, each of which
\* returns (os.stat, time.sleep), so it keeps taking its next step; nothing
\* is assumed of the store.
WaitSpec == WaitInit /\ [][WaitNext]_vars /\ WF_vars(WaitStat) /\ WF_vars(WaitSleep)

TypeOK ==
    /\ pc \in {"parse_args", "open_src", "stat_src", "create_dest", "copy_read",
               "copy_write", "copy_except", "close_src", "close_dest",
               "close_except", "wait_stat", "wait_sleep", "read_sum",
               "mismatch", "read_id", "exit"}
    /\ exitStatus \in {NoExit} \cup 0..6
    /\ (pc = "exit") = (exitStatus # NoExit)
    /\ srcPos \in 0..Len(srcData)
    /\ (exc # "none") => exitStatus = 1
    /\ rsize \in 0..Len(destData)
    /\ asum[1] \in 0..(Half - 1) /\ asum[2] \in 0..(Half - 1)

(***************************** properties **********************************)
Terminated == pc = "exit"
\* the command line was accepted: the run got past line 53
ArgsParsed == hist.failed \cap {"usage", "out_log"} = {}
\* the system calls and file reads that failed
IOFailures == hist.failed \ {"usage", "mismatch", "format"}
IsPrefix(s, t) == Len(s) <= Len(t) /\ s = SubSeq(t, 1, Len(s))
Zeros == <<"0", "0", "0", "0", "0", "0", "0", "0">>
NoPrefixLine(lines) == \A i \in 1..Len(lines) : Find(lines[i], CSUM_PREFIX) = -1

\* C1: every failed run that created the destination has removed it when
\* it terminates.
C1_CleanupOnEveryFailure ==
    (Terminated /\ exitStatus # 0 /\ hist.created) => ~destExists

\* C2 (as stated): a run whose destination exists at the start ends with
\* status 3, the file untouched, copy() not called, no sidecar opened, and
\* os.remove is only ever executed after a successful exclusive create.
C2_Original ==
    /\ (destPre /\ Terminated /\ ArgsParsed) => exitStatus = 3
    /\ destPre => /\ destExists /\ ~hist.copyCalled /\ ~hist.removed
                  /\ hist.reads = 0 /\ hist.writes = 0 /\ hist.sidecars = {}
    /\ hist.removed => hist.created

\* C2 (amended): a run whose destination exists at the start and whose
\* source was opened and stat'ed ends with status 3; in every run with an
\* existing destination the file keeps its bytes and is not removed, copy()
\* is not called and no sidecar is opened; and the path only ever
\* disappears after a successful exclusive create in the same run.
C2_ExistingDestUntouched ==
    /\ [](/\ (destPre /\ Terminated /\ ArgsParsed
                /\ hist.failed \cap {"open_src", "stat_src"} = {})
               => exitStatus = 3
          /\ (destPre /\ Terminated /\ exitStatus = 3) => inFd = "open"
          /\ destPre => /\ destExists /\ ~hist.copyCalled /\ ~hist.removed
                        /\ hist.reads = 0 /\ hist.writes = 0
                        /\ hist.sidecars = {}
          /\ hist.removed => hist.created)
    /\ [][/\ destPre => (destData' = destData /\ destExists' = destExists)
          /\ (destExists /\ ~destExists') => hist.created]_vars
C2_Witness ==
    destPre /\ Terminated /\ exitStatus = 3 /\ destData = <<255>>

InCopy == pc \in {"copy_read", "copy_write"}
CopyReturned == hist.copyCalled /\ lsum # None

\* C5: when copy() returns normally the destination holds exactly the bytes
\* the reads returned, in order, however the reads split them; between two
\* reads it holds exactly the bytes read so far, and it only grows.
C5_CopyIsExact ==
    /\ [](/\ (CopyReturned /\ destExists)
               => (destData = srcData /\ srcPos = Len(srcData))
          /\ pc = "copy_read" => destData = SubSeq(srcData, 1, srcPos)
          /\ pc = "copy_write"
               => destData \o data = SubSeq(srcData, 1, srcPos))
    /\ [][InCopy => IsPrefix(destData, destData')]_vars
C5_Witness ==
    /\ CopyReturned /\ destExists /\ pc = "close_src"
    /\ Len(srcData) = MaxLen /\ destData = srcData
    /\ hist.writes = 2 /\ 0 \in {srcData[i] : i \in 1..Len(srcData)}
    /\ 255 \in {srcData[i] : i \in 1..Len(srcData)}

\* C6: folding the blocks one after another from the seed gives the same
\* value as folding all the bytes read so far as one block, so the checksum
\* copy() returns is that of the whole stream.
C6_ChunkingInvariance ==
    /\ hist.copyCalled => asum = Fold(SubSeq(srcData, 1, srcPos), Seed)
    /\ CopyReturned => lsum = Render(Fold(srcData, Seed))
C6_Witness ==
    /\ CopyReturned /\ srcData = Run(255, LongRun)
    /\ hist.writes > LongRun \div MaxLen /\ hist.writes < LongRun
    /\ asum[1] = LongRun + 255 * ((LongRun * (LongRun + 1)) \div 2) - BASE

C8_RecordOnlyOnSuccess ==
    /\ Len(outRecords) <= 1
    /\ outRecords # <<>>
         => /\ exitStatus = 0
            /\ hist.sizeSeen
            /\ hist.compared /\ lsum = rsum /\ outRecords[1].lsum = rsum
            /\ ~hist.removed /\ destExists
    /\ (Terminated /\ exitStatus # 0) => outRecords = <<>>
C8_Witness ==
    /\ Len(outRecords) = 1 /\ exitStatus = 0 /\ notices > 0
    /\ outRecords[1].lsize = MaxLen

\* C9: a run in which every open, read, write, close and stat succeeded,
\* the size was seen and the checksums compared equal ends with status 0,
\* exactly one success record and the destination in place, whatever the
\* source size (the clock having advanced between start and end).
C9_SuccessForEverySize ==
    (Terminated /\ ArgsParsed /\ IOFailures = {} /\ elapsed > 0
       /\ hist.sizeSeen /\ hist.compared /\ lsum = rsum)
      => /\ exitStatus = 0 /\ exc = "none"
         /\ Len(outRecords) = 1
         /\ destExists

\* C10: the exit status of a run that got past the command line names the
\* stage that failed (2 open-source, 3 create-destination, 4 copy, 5
\* close-destination, 6 checksum-mismatch, 0 success) and is never 1, the
\* status of the usage error.
C10_StatusNamesStage ==
    (Terminated /\ ArgsParsed)
      => /\ exitStatus # 1
         /\ exitStatus = 0 => hist.failed \subseteq {"close_src"}
         /\ exitStatus = 2 <=> hist.failed \cap {"open_src", "stat_src"} # {}
         /\ exitStatus = 3 <=> "create_dest" \in hist.failed
         /\ exitStatus = 4
              <=> hist.failed \cap {"read", "write", "short_write"} # {}
         /\ exitStatus = 5 <=> "close_dest" \in hist.failed
         /\ exitStatus = 6 <=> "mismatch" \in hist.failed

\* C11: a remote checksum that differs from the local one only in the case
\* of its hex digits counts as a match: the run does not take the mismatch
\* exit.
C11_CaseInsensitiveMatch ==
    (hist.compared /\ rsum # None /\ lower(rsum) = lower(lsum))
      => /\ pc # "mismatch"
         /\ exitStatus # 6
         /\ "mismatch" \notin hist.failed

\* C12: when a run that opened the source terminates, either the source
\* handle has been closed and the destination handle is not left open, or
\* the destination path is gone.
C12_HandlesClosedOrDestGone ==
    (Terminated /\ inFd # "none")
      => \/ (inFd = "closed" /\ outFd # "open")
         \/ ~destExists

\* os.close(inFd) was called (line 79), whether or not it failed
SrcCloseTried == inFd = "closed" \/ "close_src" \in hist.failed

\* C13: a failed close of the source never ends the run nor removes the
\* destination; the run goes on to close the destination, and its exit
\* status and the fate of the destination are decided by the other
\* failures alone.  An error at open-source, create-destination, copy or
\* destination-close ends the run at once (after the cleanup of its stage).
C13_OnlySourceCloseTolerated ==
    /\ [](/\ hist.failed \cap {"open_src", "stat_src", "create_dest"} # {}
               => Terminated
          /\ hist.failed \cap {"read", "write", "short_write"} # {}
               => pc \in {"copy_except", "exit"}
          /\ "close_dest" \in hist.failed => pc \in {"close_except", "exit"}
          /\ (Terminated /\ SrcCloseTried)
               => LET f == hist.failed \ {"close_src"}
                  IN  /\ exitStatus = 0 <=> f = {}
                      /\ exitStatus = 5 <=> "close_dest" \in f
                      /\ exitStatus = 6 <=> "mismatch" \in f
                      /\ exitStatus = 1
                           <=> f \cap {"wait_stat", "sum_read", "id_read",
                                       "format"} # {}
                      /\ destExists <=> exitStatus \in {0, 1})
    /\ [][pc = "close_src"
            => \/ pc' = pc
               \/ /\ pc' = "close_dest"
                  /\ destExists' = destExists /\ destData' = destData
                  /\ hist'.removed = hist.removed]_vars
C13_Witness ==
    /\ Terminated /\ exitStatus = 0 /\ "close_src" \in hist.failed
    /\ destExists /\ outFd = "closed" /\ Len(outRecords) = 1

WaitPcs == {"wait_stat", "wait_sleep"}
\* main() has called waitForSize (line 90)
WaitEntered == outFd = "closed" /\ "close_dest" \notin hist.failed
\* waitForSize has returned normally
WaitReturned ==
    \/ pc \in {"read_sum", "mismatch", "read_id"}
    \/ hist.sidecars # {}

\* C14 (as stated): waitForSize returns only after a check saw the expected
\* size, and as long as no check has seen it the run is still in the wait:
\* it reaches neither verification nor any exit.
C14_Original ==
    /\ WaitReturned => hist.sizeSeen
    /\ (WaitEntered /\ ~hist.sizeSeen) => pc \in WaitPcs

\* C14 (what the code does): waitForSize returns normally only after a check saw the
\* expected size, and at the first such check; a check that sees another
\* size is followed by one notice, one sleep and another check, without
\* bound; as long as no check has seen the size the run is in the wait or
\* has died of an uncaught OSError of os.stat.  The wait ends if the size
\* the store reports eventually equals the expected one for good, and a
\* wait that never ends keeps checking and sleeping.
C14_WaitForSize ==
    /\ [](WaitReturned => hist.sizeSeen)
    /\ []((WaitEntered /\ ~hist.sizeSeen)
            => \/ pc \in WaitPcs
               \/ /\ Terminated /\ exc = "OSError" /\ exitStatus = 1
                  /\ "wait_stat" \in hist.failed /\ destExists)
    /\ [][pc = "wait_stat"
            => \/ pc' = pc
               \/ pc' = "read_sum" /\ rsize = lsize /\ hist'.sizeSeen
                    /\ notices' = notices
               \/ pc' = "wait_sleep" /\ rsize # lsize /\ notices' = notices
               \/ pc' = "exit" /\ exc' = "OSError"]_vars
    /\ [][pc = "wait_sleep"
            => \/ pc' = pc
               \/ pc' = "wait_stat"
                    /\ notices' = Min(notices + 1, MaxNotices)]_vars
    /\ (<>[](rsize = lsize)) => <>[](pc \notin WaitPcs)
    /\ (<>[](pc \in WaitPcs))
         => ([]<>(pc = "wait_stat") /\ []<>(pc = "wait_sleep"))
C14_Witness ==
    /\ pc = "read_sum" /\ hist.sizeSeen /\ notices = MaxNotices
    /\ lsize = MaxLen /\ rsize = lsize

\* the order of the steps of C15, one step at a time
C15_Step ==
    /\ (hist'.sidecars # hist.sidecars)
         => (hist.sizeSeen /\ WaitEntered /\ SrcCloseTried /\ CopyReturned)
    /\ (hist'.sizeSeen /\ ~hist.sizeSeen)
         => (WaitEntered /\ hist.sidecars = {} /\ rsize = lsize)
    /\ (WaitEntered' /\ ~WaitEntered)
         => (SrcCloseTried /\ ~hist.sizeSeen)
    /\ (SrcCloseTried' /\ ~SrcCloseTried)
         => (CopyReturned /\ outFd = "open")
    /\ (WaitEntered \/ hist.sidecars # {})
         => /\ hist'.reads = hist.reads
            /\ hist'.writes = hist.writes
            /\ srcPos' = srcPos
            /\ destData' = destData \/ (hist'.removed /\ ~destExists')

\* C15: no sidecar pseudo-file (checksum or id) is opened before copy() has
\* returned normally, then a close of the source was attempted, then the
\* close of the destination succeeded, then a size check saw the destination
\* at the size captured from the source; and once the destination is closed
\* no byte is read from the source or written to the destination any more
\* (the destination changes only by being removed).
C15_VerificationAfterTransfer ==
    /\ [](/\ hist.sidecars # {} => hist.sizeSeen
          /\ hist.sizeSeen => WaitEntered
          /\ WaitEntered => SrcCloseTried
          /\ SrcCloseTried => CopyReturned
          /\ InCopy => (~SrcCloseTried /\ outFd = "open" /\ hist.sidecars = {}))
    /\ [][C15_Step]_vars

\* a successful run that copied in several blocks and read both sidecars
C15_Witness ==
    /\ Terminated /\ exitStatus = 0
    /\ hist.sidecars = {"checksum", "id"}
    /\ hist.writes >= 2
    /\ hist.sizeSeen /\ WaitEntered /\ SrcCloseTried /\ CopyReturned

\* C16 (as stated): the id pseudo-file is read before the checksums are
\* compared: every run that reached the comparison has read it, a run that
\* ends with the mismatch status has read it, and an unreadable id
\* pseudo-file fails the run before any comparison.
C16_Original ==
    /\ hist.compared => "id" \in hist.sidecars
    /\ (Terminated /\ exitStatus = 6) => "id" \in hist.sidecars
    /\ "id_read" \in hist.failed => ~hist.compared

\* the step that opens the id pseudo-file comes after an equal comparison
C16_Step ==
    /\ (hist'.compared /\ ~hist.compared)
         => ("checksum" \in hist'.sidecars /\ "id" \notin hist'.sidecars)
    /\ ("id" \in hist'.sidecars /\ "id" \notin hist.sidecars)
         => (hist.compared /\ ~SumsDiffer(lsum, rsum) /\ pc = "read_id")

\* C16 (amended): the checksum pseudo-file is read before the comparison and
\* the id pseudo-file only after the comparison found the checksums equal: a
\* run that reached the mismatch branch never reads the id pseudo-file, and
\* an unreadable id pseudo-file ends the run after the comparison, through
\* an uncaught IOError (exit status 1, destination left in place).
C16_IdAfterCompare ==
    /\ [](/\ hist.compared => "checksum" \in hist.sidecars
          /\ "id" \in hist.sidecars
               => (hist.compared /\ ~SumsDiffer(lsum, rsum)
                   /\ "mismatch" \notin hist.failed)
          /\ (pc = "mismatch" \/ exitStatus = 6 \/ "mismatch" \in hist.failed)
               => "id" \notin hist.sidecars
          /\ "id_read" \in hist.failed
               => (hist.compared /\ Terminated /\ exc = "IOError"
                   /\ exitStatus = 1 /\ destExists /\ outRecords = <<>>))
    /\ [][C16_Step]_vars

\* a run that compared equal checksums and then failed to read the id
C16_Witness ==
    /\ Terminated /\ "id_read" \in hist.failed
    /\ hist.compared /\ rsum = lsum
    /\ hist.sidecars = {"checksum", "id"}

\* the number a string of lowercase hexadecimal digits denotes
DigitOf(c) == CHOOSE d \in 0..15 : HexChars[d + 1] = c
RECURSIVE HexValue(_)
HexValue(s) ==
    IF s = <<>> THEN 0
    ELSE 16 * HexValue(SubSeq(s, 1, Len(s) - 1)) + DigitOf(s[Len(s)])
IsLowerHex(s) == \A i \in 1..Len(s) : \E d \in 0..15 : HexChars[d + 1] = s[i]

\* C17: after every fold the accumulator lies in 0..2^32-1; the string
\* copy() returns has exactly 8 lowercase hexadecimal characters and denotes
\* the accumulator (zero-padded on the left); a copy whose first read
\* returns no bytes writes nothing and returns 00000001.
C17_EightHexDigits ==
    /\ asum[1] \in 0..(Half - 1) /\ asum[2] \in 0..(Half - 1)
    /\ CopyReturned
         => /\ Len(lsum) = 8
            /\ IsLowerHex(lsum)
            /\ HexValue(SubSeq(lsum, 1, 4)) = asum[1]
            /\ HexValue(SubSeq(lsum, 5, 8)) = asum[2]
    /\ (CopyReturned /\ hist.reads = 1)
         => /\ hist.writes = 0 /\ destData = <<>>
            /\ lsum = <<"0", "0", "0", "0", "0", "0", "0", "1">>

\* copy() returned, after several blocks, a checksum whose value is negative
\* as a signed 32-bit integer
C17_Witness ==
    /\ CopyReturned /\ hist.writes >= 2
    /\ asum[1] >= Half \div 2
    /\ Len(lsum) = 8 /\ lsum[1] \in {"8", "9", "a", "b", "c", "d", "e", "f"}

\* the Adler-32 value (seed 1) of a byte string, from the definition: a is
\* 1 plus the sum of the bytes, b the sum of the successive values of a,
\* both modulo 65521
RECURSIVE SumBytes(_)
SumBytes(bytes) == IF bytes = <<>> THEN 0 ELSE Head(bytes) + SumBytes(Tail(bytes))
RECURSIVE SumOfA(_)
SumOfA(bytes) ==
    IF bytes = <<>> THEN 0
    ELSE SumOfA(SubSeq(bytes, 1, Len(bytes) - 1)) + 1 + SumBytes(bytes)
Adler32Of(bytes) == <<SumOfA(bytes) % BASE, (1 + SumBytes(bytes)) % BASE>>

\* C18: at the start of every iteration of copy() the accumulator is the
\* Adler-32 value (seed 1) of the bytes written to the destination so far
\* and every block read so far was folded once and written once; between the
\* fold and the write the accumulator is that of the written bytes followed
\* by the block in hand (fold before write); blocks are folded in the order
\* read; and the checksum copy() returns is the Adler-32 of exactly the bytes
\* written to the destination.
C18_LoopInvariant ==
    /\ pc = "copy_read"
         => /\ asum = Adler32Of(destData)
            /\ hist.reads = hist.writes
            /\ destData = SubSeq(srcData, 1, srcPos)
    /\ pc = "copy_write"
         => /\ asum = Adler32Of(destData \o data)
            /\ data # <<>>
            /\ hist.reads = hist.writes + 1
            /\ destData \o data = SubSeq(srcData, 1, srcPos)
    /\ (CopyReturned /\ destExists)
         => /\ HexValue(SubSeq(lsum, 1, 4)) = Adler32Of(destData)[1]
            /\ HexValue(SubSeq(lsum, 5, 8)) = Adler32Of(destData)[2]
            /\ hist.reads = hist.writes + 1

\* copy() returned after several folds whose sums passed the modulus
C18_Witness ==
    /\ CopyReturned /\ destExists
    /\ hist.writes >= 3
    /\ SumOfA(destData) >= BASE
    /\ asum = Adler32Of(destData)

=============================================================================
